---- MODULE Spec2Model ----
(***************************************************************************)
(* tlog2csv.py: decoding of a Varian TrueBeam trajectory log file into     *)
(* header fields and per-axis expected/actual sequences, followed by the   *)
(* CSV dump.  The script is one linear pipeline of module-level statements *)
(* that share the global `cursor`; every statement is one action here.     *)
(***************************************************************************)
EXTENDS Integers, Sequences, FiniteSets, TLC

VARIABLES
    fcontent,           \* the bytes of the log file (line 103), see File images below
    cursor,             \* global read position (line 105)
    pc,                 \* the statement the script executes next
    err,                \* the exception that ended the script, "none" while it runs
    signature, version, header_size, sampling_interval, num_axes,
    axis_enum, samples_per_axis, num_mlc_leaves,
    clinac_scale, num_subbeams, is_truncated, num_snapshots, mlc_model,
    header_end,         \* history: value of cursor when line 125 completed
    beam,               \* loop variable of line 130
    step_size, snapshot_data,
    axes,               \* the fifteen module-level Axis objects of lines 144-187, by name
    mlc, leaf,          \* dict of line 191 and loop variable of line 192
    csv_file,           \* the output file: "absent", "open" or "closed" (line 217)
    csv_rows            \* number of rows written to it

vars == <<fcontent, cursor, pc, err, signature, version, header_size,
          sampling_interval, num_axes, axis_enum, samples_per_axis,
          num_mlc_leaves, clinac_scale, num_subbeams, is_truncated,
          num_snapshots, mlc_model, header_end, beam, step_size,
          snapshot_data, axes, mlc, leaf, csv_file, csv_rows>>

-----------------------------------------------------------------------------
(* Bounds of the explored inputs.                                          *)

MaxSubbeams == 5
MaxSnapshots == 3
MaxLast == 4

(* Constants of the program.                                               *)

HeaderBytes == 1024
SubbeamBytes == 80

-----------------------------------------------------------------------------
(* Small arithmetic helpers.                                               *)

Max(a, b) == IF a >= b THEN a ELSE b
Min(a, b) == IF a <= b THEN a ELSE b

RECURSIVE SumSeq(_)
SumSeq(s) == IF s = <<>> THEN 0 ELSE Head(s) + SumSeq(Tail(s))

-----------------------------------------------------------------------------
(* File images.  A file is described by what a log writer put in it and by *)
(* the number of bytes that survive (len).  Bytes 0..31 are two 16-byte    *)
(* NUL-padded text fields; from byte 32 on the file is a run of 4-byte     *)
(* little-endian words.  ByteAt and WordAt give the content at an offset.  *)
(* Text bytes are one-character strings, NUL is the pad byte and "0xFF" a  *)
(* byte that no text codec decodes.                                        *)

NUL == "NUL"
BadByte == "0xFF"

TextBytes == 16
WordBytes == 4

\* number of int32 entries of each per-axis array a writer stores
ArrayLen(f) == Max(f.na, 0)

\* end of the header fields: 32 text bytes, 3 ints, two arrays, 5 ints
FieldsEnd(f) == 2 * TextBytes + WordBytes * (8 + 2 * ArrayLen(f))

\* where the writer put the first snapshot row
PayloadStart(f) == Max(f.hs, FieldsEnd(f)) + SubbeamBytes * Max(f.nsb, 0)

PayloadWords(f) == Max(2 * SumSeq(f.spa) * f.nsnap, 0)

FullLen(f) == PayloadStart(f) + WordBytes * PayloadWords(f)

\* byte i (0-based) of the text region
ByteAt(f, i) ==
    LET t == IF i < TextBytes THEN f.sig ELSE f.ver
        k == IF i < TextBytes THEN i + 1 ELSE i - TextBytes + 1
    IN IF k <= Len(t) THEN t[k] ELSE NUL

\* the word stored at byte offset off (a multiple of 4, at least 32)
WordAt(f, off) ==
    LET k == (off - 2 * TextBytes) \div WordBytes
        n == ArrayLen(f)
    IN CASE k = 0 -> f.hs
         [] k = 1 -> 20                      \* sampling interval, ms
         [] k = 2 -> f.na
         [] k >= 3 /\ k < 3 + n -> k - 3      \* axis enumeration 0, 1, 2, ...
         [] k >= 3 + n /\ k < 3 + 2 * n -> f.spa[k - 2 - n]
         [] k = 3 + 2 * n -> 1               \* axis scale
         [] k = 4 + 2 * n -> f.nsb
         [] k = 5 + 2 * n -> 0               \* is truncated
         [] k = 6 + 2 * n -> f.nsnap
         [] k = 7 + 2 * n -> 2               \* MLC model
         [] OTHER ->
              IF off < PayloadStart(f) THEN 0    \* reserved bytes, sub-beam records
              ELSE 1 + (off - PayloadStart(f)) \div WordBytes
                                             \* snapshot value = 1 + its flat index

-----------------------------------------------------------------------------
(* Python semantics used by the script.                                    *)

\* index normalisation of a slice bound against a sequence of length n
SliceBound(i, n) == IF i < 0 THEN Max(i + n, 0) ELSE Min(i, n)

\* the bytes of fc[a:b] are those at offsets SliceLo .. SliceHi - 1
SliceLo(f, a) == SliceBound(a, f.len)
SliceHi(f, b) == SliceBound(b, f.len)
SliceLen(f, a, b) == Max(SliceHi(f, b) - SliceLo(f, a), 0)

\* fc[a:b] inside the text region, as a sequence of bytes
TextSlice(f, a, b) ==
    [i \in 1..SliceLen(f, a, b) |-> ByteAt(f, SliceLo(f, a) + i - 1)]

\* str.strip('\x00')
RECURSIVE StripLeft(_)
StripLeft(s) ==
    IF s # <<>> /\ Head(s) = NUL THEN StripLeft(Tail(s)) ELSE s

RECURSIVE StripRight(_)
StripRight(s) ==
    IF s # <<>> /\ s[Len(s)] = NUL THEN StripRight(SubSeq(s, 1, Len(s) - 1)) ELSE s

Strip(s) == StripRight(StripLeft(s))

\* values returned by struct.unpack after lines 73-74 / 79-80: a bare number
\* when exactly one value was unpacked, a tuple otherwise
Scalar(x) == [scalar |-> TRUE, v |-> x]
Tuple(s) == [scalar |-> FALSE, v |-> s]

DecodeStr(f, cur, num_values) ==
    LET raw == TextSlice(f, cur, cur + num_values)
    IN IF \E i \in 1..Len(raw) : raw[i] = BadByte
       THEN [exc |-> "UnicodeDecodeError", output |-> <<>>, cursor |-> cur]
       ELSE [exc |-> "none", output |-> Strip(raw), cursor |-> cur + num_values]

\* lines 70-75 and 76-81: the int and float branches differ in the format
\* character only; words hold integral values in both
DecodeNumber(f, cur, num_values) ==
    LET ssize == WordBytes * num_values
        count == Max(num_values, 0)        \* 'i' * num_values is '' when negative
        lo == SliceLo(f, cur)
        vals == [i \in 1..count |-> WordAt(f, lo + WordBytes * (i - 1))]
    IN IF SliceLen(f, cur, cur + ssize) # WordBytes * count
       THEN [exc |-> "struct.error", output |-> Tuple(<<>>), cursor |-> cur]
       ELSE [exc |-> "none",
             output |-> IF count = 1 THEN Scalar(vals[1]) ELSE Tuple(vals),
             cursor |-> cur + ssize]

decode_binary(f, cur, dtype, num_values, cursor_shift) ==
    LET r == CASE dtype = "str" -> DecodeStr(f, cur, num_values)
               [] dtype \in {"int", "float"} -> DecodeNumber(f, cur, num_values)
               [] OTHER -> [exc |-> "TypeError", output |-> <<>>, cursor |-> cur]
    IN IF r.exc # "none" THEN r
       ELSE [r EXCEPT !.cursor = r.cursor + cursor_shift]

\* float(text) for texts made of decimal digits and "."
Digits == <<"0", "1", "2", "3", "4", "5", "6", "7", "8", "9">>

IsDigit(c) == \E d \in 1..Len(Digits) : Digits[d] = c
DigitVal(c) == (CHOOSE d \in 1..Len(Digits) : Digits[d] = c) - 1

RECURSIVE DigitsVal(_)
DigitsVal(s) ==
    IF s = <<>> THEN 0 ELSE 10 * DigitsVal(SubSeq(s, 1, Len(s) - 1)) + DigitVal(s[Len(s)])

RECURSIVE StripZeros(_)
StripZeros(s) ==
    IF s # <<>> /\ s[Len(s)] = "0" THEN StripZeros(SubSeq(s, 1, Len(s) - 1)) ELSE s

\* the float is kept as its integer part and its fraction digits
ParseFloat(t) ==
    LET dots == {i \in 1..Len(t) : t[i] = "."}
        dot == IF dots = {} THEN Len(t) + 1 ELSE CHOOSE i \in dots : TRUE
        whole == SubSeq(t, 1, dot - 1)
        frac == SubSeq(t, dot + 1, Len(t))
        ok == /\ Cardinality(dots) <= 1
              /\ \A i \in 1..Len(t) : t[i] = "." \/ IsDigit(t[i])
              /\ Len(whole) + Len(frac) >= 1
    IN IF ok THEN [exc |-> "none", whole |-> DigitsVal(whole), frac |-> StripZeros(frac)]
       ELSE [exc |-> "ValueError", whole |-> 0, frac |-> <<>>]

\* seq[start::step] of lines 144-194, as the sequence of selected elements
StridedIndices(n, start, step) ==
    IF step > 0
    THEN LET lo == SliceBound(start, n)
         IN [k \in 1..((n - lo + step - 1) \div step) |-> lo + (k - 1) * step]
    ELSE LET hi == IF start < 0 THEN Max(start + n, -1) ELSE Min(start, n - 1)
         IN [k \in 1..((hi - step) \div (0 - step)) |-> hi + (k - 1) * step]

StridedSlice(s, start, step) ==
    LET idx == StridedIndices(Len(s), start, step)
    IN [k \in 1..Len(idx) |-> s[idx[k] + 1]]

-----------------------------------------------------------------------------
(* The input files explored.                                               *)

FormatTag == <<"V", "O", "S", "T", "L">>

Signatures == {FormatTag, <<"X", "Y", "Z">>, <<BadByte, "O">>}
Versions == {<<"2", ".", "1">>, <<"a", "b">>}
HeaderSizes == {HeaderBytes, HeaderBytes + 64}
NumAxesChoices == {-1, 0, 1, 2, 14}

\* samples per axis: `a` for every axis but the last, `b` for the last
Samples(na, a, b) == [i \in 1..Max(na, 0) |-> IF i = na THEN b ELSE a]

Image(sig, ver, hs, na, a, b, nsb, nsnap) ==
    [sig |-> sig, ver |-> ver, hs |-> hs, na |-> na, spa |-> Samples(na, a, b),
     nsb |-> nsb, nsnap |-> nsnap, len |-> 0]

\* complete, well-signed files of every geometry
GeometryFiles ==
    { [f EXCEPT !.len = FullLen(f)] :
        f \in { Image(FormatTag, <<"2", ".", "1">>, HeaderBytes, na, a, b, nsb, nsnap) :
                  na \in NumAxesChoices, a \in 1..2, b \in 0..MaxLast,
                  nsb \in 0..MaxSubbeams, nsnap \in 0..MaxSnapshots } }

\* lengths at which a file is cut
Truncations(f) == {8, 17, 24, 40, HeaderBytes - 24, FullLen(f) - WordBytes, FullLen(f)}

\* files with a foreign signature, a bad version, another header size or a
\* negative sub-beam count, whole or cut short
DamagedFiles ==
    UNION { { [f EXCEPT !.len = n] : n \in Truncations(f) } :
        f \in { Image(sig, ver, hs, na, 2, 4, nsb, nsnap) :
                  sig \in Signatures, ver \in Versions, hs \in HeaderSizes,
                  na \in {2, 14}, nsb \in {-1, 0, 1}, nsnap \in {0, 2} } }

Files == GeometryFiles \cup DamagedFiles

-----------------------------------------------------------------------------
(* The script.                                                             *)

\* the fifteen Axis objects in the order of lines 144-187; the k-th one
\* takes columns 2(k-1) and 2(k-1)+1
AxisOrder == <<"collimator", "gantry", "jaw_y1", "jaw_y2", "jaw_x1", "jaw_x2",
               "couch_vrt", "couch_lng", "couch_lat", "couch_rtn", "mu",
               "beam_hold", "control_point", "carraigeA", "carriageB">>

AxisNames == {AxisOrder[k] : k \in 1..Len(AxisOrder)}

AxisColumn(name) == 2 * ((CHOOSE k \in 1..Len(AxisOrder) : AxisOrder[k] = name) - 1)

\* Axis(expected=data[col::step], actual=data[col+1::step])
Axis(data, col, step) ==
    [expected |-> StridedSlice(data, col, step),
     actual |-> StridedSlice(data, col + 1, step)]

\* first column of leaf `l` (0-based), line 193
LeafColumn(l) == 30 + (2 * l)

\* mutation of Raise: the exception is swallowed and the script carries on to
\* the writer
RaiseSwallowed(exc) == pc' = "write_values" /\ err' = exc

\* an exception nobody catches ends the script
Raise(exc) == pc' = "failed" /\ err' = exc

\* line 125: bytes to jump after mlc_model
CursorShift(n) == HeaderBytes - (64 + n * 8)

\* line 131
SubbeamSkip(cur) == cur + SubbeamBytes

\* mutation of SubbeamLoopRuns: the loop stops one iteration early
SubbeamLoopRunsShort == num_subbeams # 0 /\ beam < num_subbeams - 1

\* line 130: the loop has another iteration to run
SubbeamLoopRuns == num_subbeams # 0 /\ beam < num_subbeams

\* line 192: the loop has another iteration to run
LeafLoopRuns == leaf < num_mlc_leaves

Init ==
    /\ fcontent \in Files
    /\ cursor = 0
    /\ pc = "signature"
    /\ err = "none"
    /\ signature = <<>>
    /\ version = [whole |-> 0, frac |-> <<>>]
    /\ header_size = 0
    /\ sampling_interval = 0
    /\ num_axes = 0
    /\ axis_enum = Tuple(<<>>)
    /\ samples_per_axis = Tuple(<<>>)
    /\ num_mlc_leaves = 0
    /\ clinac_scale = 0
    /\ num_subbeams = 0
    /\ is_truncated = 0
    /\ num_snapshots = 0
    /\ mlc_model = 0
    /\ header_end = 0
    /\ beam = 0
    /\ step_size = 0
    /\ snapshot_data = Tuple(<<>>)
    /\ axes = <<>>
    /\ mlc = <<>>
    /\ leaf = 0
    /\ csv_file = "absent"
    /\ csv_rows = 0

\* lines 108-111: any exception of the read is turned into IOError
ReadSignature ==
    /\ pc = "signature"
    /\ LET r == decode_binary(fcontent, cursor, "str", TextBytes, 0)
       IN IF r.exc # "none"
          THEN Raise("IOError") /\ UNCHANGED <<cursor, signature>>
          ELSE /\ signature' = r.output
               /\ cursor' = r.cursor
               /\ pc' = "version"
               /\ err' = err
    /\ UNCHANGED <<fcontent, version, header_size, sampling_interval,
                 num_axes, axis_enum, samples_per_axis, num_mlc_leaves,
                 clinac_scale, num_subbeams, is_truncated, num_snapshots,
                 mlc_model, header_end, beam, step_size, snapshot_data, axes,
                 mlc, leaf, csv_file, csv_rows>>

\* line 112: the text is read (the cursor moves) and then parsed
ReadVersion ==
    /\ pc = "version"
    /\ LET r == decode_binary(fcontent, cursor, "str", TextBytes, 0)
           p == ParseFloat(r.output)
       IN IF r.exc # "none"
          THEN Raise(r.exc) /\ UNCHANGED <<cursor, version>>
          ELSE /\ cursor' = r.cursor
               /\ IF p.exc # "none"
                  THEN Raise(p.exc) /\ UNCHANGED version
                  ELSE /\ version' = [whole |-> p.whole, frac |-> p.frac]
                       /\ pc' = "header_size"
                       /\ err' = err
    /\ UNCHANGED <<fcontent, signature, header_size, sampling_interval,
                 num_axes, axis_enum, samples_per_axis, num_mlc_leaves,
                 clinac_scale, num_subbeams, is_truncated, num_snapshots,
                 mlc_model, header_end, beam, step_size, snapshot_data, axes,
                 mlc, leaf, csv_file, csv_rows>>

\* line 113
ReadHeaderSize ==
    /\ pc = "header_size"
    /\ LET r == decode_binary(fcontent, cursor, "int", 1, 0)
       IN IF r.exc # "none"
          THEN Raise(r.exc) /\ UNCHANGED <<cursor, header_size>>
          ELSE /\ header_size' = r.output.v
               /\ cursor' = r.cursor
               /\ pc' = "sampling_interval"
               /\ err' = err
    /\ UNCHANGED <<fcontent, signature, version, sampling_interval, num_axes,
                 axis_enum, samples_per_axis, num_mlc_leaves, clinac_scale,
                 num_subbeams, is_truncated, num_snapshots, mlc_model,
                 header_end, beam, step_size, snapshot_data, axes, mlc, leaf,
                 csv_file, csv_rows>>

\* line 114
ReadSamplingInterval ==
    /\ pc = "sampling_interval"
    /\ LET r == decode_binary(fcontent, cursor, "int", 1, 0)
       IN IF r.exc # "none"
          THEN Raise(r.exc) /\ UNCHANGED <<cursor, sampling_interval>>
          ELSE /\ sampling_interval' = r.output.v
               /\ cursor' = r.cursor
               /\ pc' = "num_axes"
               /\ err' = err
    /\ UNCHANGED <<fcontent, signature, version, header_size, num_axes,
                 axis_enum, samples_per_axis, num_mlc_leaves, clinac_scale,
                 num_subbeams, is_truncated, num_snapshots, mlc_model,
                 header_end, beam, step_size, snapshot_data, axes, mlc, leaf,
                 csv_file, csv_rows>>

\* line 115
ReadNumAxes ==
    /\ pc = "num_axes"
    /\ LET r == decode_binary(fcontent, cursor, "int", 1, 0)
       IN IF r.exc # "none"
          THEN Raise(r.exc) /\ UNCHANGED <<cursor, num_axes>>
          ELSE /\ num_axes' = r.output.v
               /\ cursor' = r.cursor
               /\ pc' = "axis_enum"
               /\ err' = err
    /\ UNCHANGED <<fcontent, signature, version, header_size,
                 sampling_interval, axis_enum, samples_per_axis,
                 num_mlc_leaves, clinac_scale, num_subbeams, is_truncated,
                 num_snapshots, mlc_model, header_end, beam, step_size,
                 snapshot_data, axes, mlc, leaf, csv_file, csv_rows>>

\* line 116
ReadAxisEnum ==
    /\ pc = "axis_enum"
    /\ LET r == decode_binary(fcontent, cursor, "int", num_axes, 0)
       IN IF r.exc # "none"
          THEN Raise(r.exc) /\ UNCHANGED <<cursor, axis_enum>>
          ELSE /\ axis_enum' = r.output
               /\ cursor' = r.cursor
               /\ pc' = "samples_per_axis"
               /\ err' = err
    /\ UNCHANGED <<fcontent, signature, version, header_size,
                 sampling_interval, num_axes, samples_per_axis,
                 num_mlc_leaves, clinac_scale, num_subbeams, is_truncated,
                 num_snapshots, mlc_model, header_end, beam, step_size,
                 snapshot_data, axes, mlc, leaf, csv_file, csv_rows>>

\* line 117
ReadSamplesPerAxis ==
    /\ pc = "samples_per_axis"
    /\ LET r == decode_binary(fcontent, cursor, "int", num_axes, 0)
       IN IF r.exc # "none"
          THEN Raise(r.exc) /\ UNCHANGED <<cursor, samples_per_axis>>
          ELSE /\ samples_per_axis' = r.output
               /\ cursor' = r.cursor
               /\ pc' = "num_mlc_leaves"
               /\ err' = err
    /\ UNCHANGED <<fcontent, signature, version, header_size,
                 sampling_interval, num_axes, axis_enum, num_mlc_leaves,
                 clinac_scale, num_subbeams, is_truncated, num_snapshots,
                 mlc_model, header_end, beam, step_size, snapshot_data, axes,
                 mlc, leaf, csv_file, csv_rows>>

\* line 118: samples_per_axis[-1] - 2
ComputeNumMlcLeaves ==
    /\ pc = "num_mlc_leaves"
    /\ IF samples_per_axis.scalar
       THEN Raise("TypeError") /\ UNCHANGED num_mlc_leaves
       ELSE IF samples_per_axis.v = <<>>
       THEN Raise("IndexError") /\ UNCHANGED num_mlc_leaves
       ELSE /\ num_mlc_leaves' = samples_per_axis.v[Len(samples_per_axis.v)] - 2
            /\ pc' = "clinac_scale"
            /\ err' = err
    /\ UNCHANGED <<fcontent, cursor, signature, version, header_size,
                 sampling_interval, num_axes, axis_enum, samples_per_axis,
                 clinac_scale, num_subbeams, is_truncated, num_snapshots,
                 mlc_model, header_end, beam, step_size, snapshot_data, axes,
                 mlc, leaf, csv_file, csv_rows>>

\* line 120
ReadClinacScale ==
    /\ pc = "clinac_scale"
    /\ LET r == decode_binary(fcontent, cursor, "int", 1, 0)
       IN IF r.exc # "none"
          THEN Raise(r.exc) /\ UNCHANGED <<cursor, clinac_scale>>
          ELSE /\ clinac_scale' = r.output.v
               /\ cursor' = r.cursor
               /\ pc' = "num_subbeams"
               /\ err' = err
    /\ UNCHANGED <<fcontent, signature, version, header_size,
                 sampling_interval, num_axes, axis_enum, samples_per_axis,
                 num_mlc_leaves, num_subbeams, is_truncated, num_snapshots,
                 mlc_model, header_end, beam, step_size, snapshot_data, axes,
                 mlc, leaf, csv_file, csv_rows>>

\* line 121
ReadNumSubbeams ==
    /\ pc = "num_subbeams"
    /\ LET r == decode_binary(fcontent, cursor, "int", 1, 0)
       IN IF r.exc # "none"
          THEN Raise(r.exc) /\ UNCHANGED <<cursor, num_subbeams>>
          ELSE /\ num_subbeams' = r.output.v
               /\ cursor' = r.cursor
               /\ pc' = "is_truncated"
               /\ err' = err
    /\ UNCHANGED <<fcontent, signature, version, header_size,
                 sampling_interval, num_axes, axis_enum, samples_per_axis,
                 num_mlc_leaves, clinac_scale, is_truncated, num_snapshots,
                 mlc_model, header_end, beam, step_size, snapshot_data, axes,
                 mlc, leaf, csv_file, csv_rows>>

\* line 122
ReadIsTruncated ==
    /\ pc = "is_truncated"
    /\ LET r == decode_binary(fcontent, cursor, "int", 1, 0)
       IN IF r.exc # "none"
          THEN Raise(r.exc) /\ UNCHANGED <<cursor, is_truncated>>
          ELSE /\ is_truncated' = r.output.v
               /\ cursor' = r.cursor
               /\ pc' = "num_snapshots"
               /\ err' = err
    /\ UNCHANGED <<fcontent, signature, version, header_size,
                 sampling_interval, num_axes, axis_enum, samples_per_axis,
                 num_mlc_leaves, clinac_scale, num_subbeams, num_snapshots,
                 mlc_model, header_end, beam, step_size, snapshot_data, axes,
                 mlc, leaf, csv_file, csv_rows>>

\* line 123
ReadNumSnapshots ==
    /\ pc = "num_snapshots"
    /\ LET r == decode_binary(fcontent, cursor, "int", 1, 0)
       IN IF r.exc # "none"
          THEN Raise(r.exc) /\ UNCHANGED <<cursor, num_snapshots>>
          ELSE /\ num_snapshots' = r.output.v
               /\ cursor' = r.cursor
               /\ pc' = "mlc_model"
               /\ err' = err
    /\ UNCHANGED <<fcontent, signature, version, header_size,
                 sampling_interval, num_axes, axis_enum, samples_per_axis,
                 num_mlc_leaves, clinac_scale, num_subbeams, is_truncated,
                 mlc_model, header_end, beam, step_size, snapshot_data, axes,
                 mlc, leaf, csv_file, csv_rows>>

\* line 125: read mlc_model and jump over the reserved bytes
ReadMlcModel ==
    /\ pc = "mlc_model"
    /\ LET r == decode_binary(fcontent, cursor, "int", 1, CursorShift(num_axes))
       IN IF r.exc # "none"
          THEN Raise(r.exc) /\ UNCHANGED <<cursor, mlc_model, header_end, beam>>
          ELSE /\ mlc_model' = r.output.v
               /\ cursor' = r.cursor
               /\ header_end' = r.cursor
               /\ beam' = 0
               /\ pc' = "subbeams"
               /\ err' = err
    /\ UNCHANGED <<fcontent, signature, version, header_size,
                 sampling_interval, num_axes, axis_enum, samples_per_axis,
                 num_mlc_leaves, clinac_scale, num_subbeams, is_truncated,
                 num_snapshots, step_size, snapshot_data, axes, mlc, leaf,
                 csv_file, csv_rows>>

\* lines 129-131: one iteration of the sub-beam loop
SkipSubbeam ==
    /\ pc = "subbeams"
    /\ SubbeamLoopRuns
    /\ cursor' = SubbeamSkip(cursor)
    /\ beam' = beam + 1
    /\ UNCHANGED <<fcontent, pc, err, signature, version, header_size,
                 sampling_interval, num_axes, axis_enum, samples_per_axis,
                 num_mlc_leaves, clinac_scale, num_subbeams, is_truncated,
                 num_snapshots, mlc_model, header_end, step_size,
                 snapshot_data, axes, mlc, leaf, csv_file, csv_rows>>

\* line 138, reached when the sub-beam loop is over
ComputeStepSize ==
    /\ pc = "subbeams"
    /\ ~SubbeamLoopRuns
    /\ IF samples_per_axis.scalar
       THEN Raise("TypeError") /\ UNCHANGED step_size
       ELSE /\ step_size' = SumSeq(samples_per_axis.v) * 2
            /\ pc' = "snapshot_data"
            /\ err' = err
    /\ UNCHANGED <<fcontent, cursor, signature, version, header_size,
                 sampling_interval, num_axes, axis_enum, samples_per_axis,
                 num_mlc_leaves, clinac_scale, num_subbeams, is_truncated,
                 num_snapshots, mlc_model, header_end, beam, snapshot_data,
                 axes, mlc, leaf, csv_file, csv_rows>>

\* line 141
ReadSnapshotData ==
    /\ pc = "snapshot_data"
    /\ LET r == decode_binary(fcontent, cursor, "float", step_size * num_snapshots, 0)
       IN IF r.exc # "none"
          THEN Raise(r.exc) /\ UNCHANGED <<cursor, snapshot_data>>
          ELSE /\ snapshot_data' = r.output
               /\ cursor' = r.cursor
               /\ pc' = "axes"
               /\ err' = err
    /\ UNCHANGED <<fcontent, signature, version, header_size,
                 sampling_interval, num_axes, axis_enum, samples_per_axis,
                 num_mlc_leaves, clinac_scale, num_subbeams, is_truncated,
                 num_snapshots, mlc_model, header_end, beam, step_size, axes,
                 mlc, leaf, csv_file, csv_rows>>

\* lines 144-191: the fifteen strided slices, then mlc = {}
AssignAxes ==
    /\ pc = "axes"
    /\ IF snapshot_data.scalar
       THEN Raise("TypeError") /\ UNCHANGED <<axes, mlc, leaf>>
       ELSE IF step_size = 0
       THEN Raise("ValueError") /\ UNCHANGED <<axes, mlc, leaf>>
       ELSE /\ axes' = [a \in AxisNames |->
                          Axis(snapshot_data.v, AxisColumn(a), step_size)]
            /\ mlc' = <<>>
            /\ leaf' = 0
            /\ pc' = "mlc"
            /\ err' = err
    /\ UNCHANGED <<fcontent, cursor, signature, version, header_size,
                 sampling_interval, num_axes, axis_enum, samples_per_axis,
                 num_mlc_leaves, clinac_scale, num_subbeams, is_truncated,
                 num_snapshots, mlc_model, header_end, beam, step_size,
                 snapshot_data, csv_file, csv_rows>>

\* lines 192-194: one iteration of the leaf loop
AssignLeaf ==
    /\ pc = "mlc"
    /\ LeafLoopRuns
    /\ mlc' = mlc @@ (leaf :> Axis(snapshot_data.v, LeafColumn(leaf), step_size))
    /\ leaf' = leaf + 1
    /\ UNCHANGED <<fcontent, cursor, pc, err, signature, version,
                 header_size, sampling_interval, num_axes, axis_enum,
                 samples_per_axis, num_mlc_leaves, clinac_scale,
                 num_subbeams, is_truncated, num_snapshots, mlc_model,
                 header_end, beam, step_size, snapshot_data, axes, csv_file,
                 csv_rows>>

\* lines 216-218, reached when the leaf loop is over
OpenCsv ==
    /\ pc = "mlc"
    /\ ~LeafLoopRuns
    /\ csv_file' = "open"
    /\ pc' = "write_values"
    /\ UNCHANGED <<fcontent, cursor, err, signature, version, header_size,
                 sampling_interval, num_axes, axis_enum, samples_per_axis,
                 num_mlc_leaves, clinac_scale, num_subbeams, is_truncated,
                 num_snapshots, mlc_model, header_end, beam, step_size,
                 snapshot_data, axes, mlc, leaf, csv_rows>>

\* lines 219-231: thirteen write_single_value calls, one row each
WriteSingleValues ==
    /\ pc = "write_values"
    /\ csv_rows' = csv_rows + 13
    /\ pc' = "write_arrays"
    /\ UNCHANGED <<fcontent, cursor, err, signature, version, header_size,
                 sampling_interval, num_axes, axis_enum, samples_per_axis,
                 num_mlc_leaves, clinac_scale, num_subbeams, is_truncated,
                 num_snapshots, mlc_model, header_end, beam, step_size,
                 snapshot_data, axes, mlc, leaf, csv_file>>

\* lines 232-241: ten write_array calls, four rows each
WriteArrays ==
    /\ pc = "write_arrays"
    /\ csv_rows' = csv_rows + 10 * 4
    /\ leaf' = 0
    /\ pc' = "write_leaves"
    /\ UNCHANGED <<fcontent, cursor, err, signature, version, header_size,
                 sampling_interval, num_axes, axis_enum, samples_per_axis,
                 num_mlc_leaves, clinac_scale, num_subbeams, is_truncated,
                 num_snapshots, mlc_model, header_end, beam, step_size,
                 snapshot_data, axes, mlc, csv_file>>

\* lines 242-243: one iteration over the keys of mlc
WriteLeaf ==
    /\ pc = "write_leaves"
    /\ leaf < Cardinality(DOMAIN mlc)
    /\ csv_rows' = csv_rows + 4
    /\ leaf' = leaf + 1
    /\ UNCHANGED <<fcontent, cursor, pc, err, signature, version,
                 header_size, sampling_interval, num_axes, axis_enum,
                 samples_per_axis, num_mlc_leaves, clinac_scale,
                 num_subbeams, is_truncated, num_snapshots, mlc_model,
                 header_end, beam, step_size, snapshot_data, axes, mlc,
                 csv_file>>

\* end of the with block of line 217
CloseCsv ==
    /\ pc = "write_leaves"
    /\ leaf >= Cardinality(DOMAIN mlc)
    /\ csv_file' = "closed"
    /\ pc' = "done"
    /\ UNCHANGED <<fcontent, cursor, err, signature, version, header_size,
                 sampling_interval, num_axes, axis_enum, samples_per_axis,
                 num_mlc_leaves, clinac_scale, num_subbeams, is_truncated,
                 num_snapshots, mlc_model, header_end, beam, step_size,
                 snapshot_data, axes, mlc, leaf, csv_rows>>

Next ==
    \/ ReadSignature
    \/ ReadVersion
    \/ ReadHeaderSize
    \/ ReadSamplingInterval
    \/ ReadNumAxes
    \/ ReadAxisEnum
    \/ ReadSamplesPerAxis
    \/ ComputeNumMlcLeaves
    \/ ReadClinacScale
    \/ ReadNumSubbeams
    \/ ReadIsTruncated
    \/ ReadNumSnapshots
    \/ ReadMlcModel
    \/ SkipSubbeam
    \/ ComputeStepSize
    \/ ReadSnapshotData
    \/ AssignAxes
    \/ AssignLeaf
    \/ OpenCsv
    \/ WriteSingleValues
    \/ WriteArrays
    \/ WriteLeaf
    \/ CloseCsv

Spec == Init /\ [][Next]_vars

-----------------------------------------------------------------------------
(* Vocabulary of the properties.                                           *)

\* the statements in program order
PcOrder == <<"signature", "version", "header_size", "sampling_interval", "num_axes",
             "axis_enum", "samples_per_axis", "num_mlc_leaves", "clinac_scale",
             "num_subbeams", "is_truncated", "num_snapshots", "mlc_model",
             "subbeams", "snapshot_data", "axes", "mlc", "write_values",
             "write_arrays", "write_leaves", "done">>

Rank(label) == CHOOSE k \in 1..Len(PcOrder) : PcOrder[k] = label

\* the script is running (or has finished) and the statement `label` is behind it
Past(label) == pc # "failed" /\ Rank(pc) > Rank(label)

\* the decode pass (lines 105-194) ran to its end without an exception
DecodeSucceeded == Past("mlc")

\* bytes the next statement asks the cursor to read or skip
Requested ==
    CASE pc \in {"signature", "version"} -> 16
      [] pc \in {"header_size", "sampling_interval", "num_axes", "clinac_scale",
                 "num_subbeams", "is_truncated", "num_snapshots"} -> 4
      [] pc \in {"axis_enum", "samples_per_axis"} -> 4 * num_axes
      [] pc = "mlc_model" -> 4 + (header_size - (64 + num_axes * 8) - 4)
      [] pc = "subbeams" /\ beam < num_subbeams -> 80
      [] pc = "snapshot_data" -> 4 * step_size * num_snapshots
      [] OTHER -> 0

\* seq has a row r (0-based) and it holds element i (0-based) of flat
Reproduces(seq, r, flat, i) ==
    /\ r + 1 <= Len(seq)
    /\ i >= 0 /\ i + 1 <= Len(flat)
    /\ seq[r + 1] = flat[i + 1]

\* every value of the decode pass is in place
DecodeComplete ==
    /\ pc \in {"write_values", "write_arrays", "write_leaves", "done"}
    /\ ~snapshot_data.scalar
    /\ Len(snapshot_data.v) = step_size * num_snapshots
    /\ beam = Max(num_subbeams, 0)
    /\ cursor = header_end + 80 * beam + 4 * Len(snapshot_data.v)
    /\ DOMAIN axes = AxisNames
    /\ DOMAIN mlc = 0..(num_mlc_leaves - 1)

-----------------------------------------------------------------------------
(* Properties.                                                             *)

\* C1: every step leaves the cursor inside the buffer, 0 <= cursor <= len(buffer),
\* and no step (text read, int32 read, float32 read, reserved-region skip,
\* sub-beam skip) makes the cursor smaller than it was.
C1_CursorInBoundsAndMonotone ==
    [][0 <= cursor' /\ cursor' <= fcontent.len /\ cursor <= cursor']_vars

\* C2: after a successful decode every one of the fifteen fixed axes and every
\* MLC leaf has len(expected) = len(actual) = num_snapshots.
C2_AxisLengths ==
    DecodeSucceeded =>
        /\ \A a \in AxisNames :
              /\ Len(axes[a].expected) = num_snapshots
              /\ Len(axes[a].actual) = num_snapshots
        /\ \A l \in 0..(num_mlc_leaves - 1) :
              /\ l \in DOMAIN mlc
              /\ Len(mlc[l].expected) = num_snapshots
              /\ Len(mlc[l].actual) = num_snapshots

\* C3: after a successful decode, for every row r and every axis with documented
\* column c (fixed axes at 0, 2, .., 28, leaf i at 30 + 2(i-1)), expected[r] is
\* flat[r * row_stride + c] and actual[r] is flat[r * row_stride + c + 1], with
\* row_stride = 2 * sum(samples_per_axis).
C3_ColumnPositions ==
    DecodeSucceeded =>
        LET flat == snapshot_data.v
            row_stride == 2 * SumSeq(samples_per_axis.v)
        IN \A r \in 0..(num_snapshots - 1) :
              /\ \A k \in 1..Len(AxisOrder) :
                    LET c == 2 * (k - 1)
                    IN /\ Reproduces(axes[AxisOrder[k]].expected, r, flat, r * row_stride + c)
                       /\ Reproduces(axes[AxisOrder[k]].actual, r, flat, r * row_stride + c + 1)
              /\ \A i \in 1..num_mlc_leaves :
                    LET c == 30 + 2 * (i - 1)
                    IN /\ (i - 1) \in DOMAIN mlc
                       /\ Reproduces(mlc[i - 1].expected, r, flat, r * row_stride + c)
                       /\ Reproduces(mlc[i - 1].actual, r, flat, r * row_stride + c + 1)

\* C4: once mlc_model is read and the reserved bytes are skipped, the cursor is at
\* the header_size that was read from the buffer.
C4_CursorAtHeaderSize ==
    Past("mlc_model") => header_end = header_size

\* C5: from the end of the header to the first byte of the snapshot read the cursor
\* advances by exactly 80 * num_subbeams (80 per sub-beam while the loop runs), for
\* every num_subbeams >= 0.
C5_SubbeamSkip ==
    /\ (pc = "subbeams" /\ num_subbeams >= 0) =>
          (beam <= num_subbeams /\ cursor = header_end + 80 * beam)
    /\ (pc = "snapshot_data" /\ num_subbeams >= 0) =>
          cursor = header_end + 80 * num_subbeams

\* C5 witness: five sub-beams were skipped and the snapshot read starts 400 bytes
\* after the header.
C5_Witness ==
    /\ pc = "snapshot_data"
    /\ num_subbeams = 5
    /\ cursor = header_end + 400

\* C6: a signature other than the format tag ends the decode in the
\* UnrecognizedFormat failure, and nothing is read after the signature.
C6_ForeignSignatureRejected ==
    (pc # "signature" /\ signature # FormatTag) =>
        (pc = "failed" /\ err = "IOError" /\ cursor <= 16)

\* C7: a read or skip of k bytes with cursor + k > len(buffer) ends the decode in
\* failure and leaves the cursor inside the buffer.
C7_ReadPastEndFails ==
    [][(cursor + Requested > fcontent.len) =>
          (pc' = "failed" /\ cursor' <= fcontent.len)]_vars

\* C8: num_mlc_leaves is samples_per_axis[last] - 2, and the decode does not go on
\* to the later header fields when that value is negative.
C8_NegativeLeafCountRejected ==
    Past("num_mlc_leaves") =>
        /\ num_mlc_leaves = samples_per_axis.v[Len(samples_per_axis.v)] - 2
        /\ num_mlc_leaves >= 0

\* C9: the output file exists, or holds a row, only when every decode step has
\* completed without an exception; a decode that failed leaves no file and no row.
C9_AllOrNothing ==
    /\ (csv_file # "absent" \/ csv_rows > 0) => (err = "none" /\ DecodeComplete)
    /\ (err # "none" \/ pc = "failed") => (csv_file = "absent" /\ csv_rows = 0)

\* C9 witness: a log with two leaves was decoded and all of its rows were written.
C9_Witness ==
    /\ pc = "done"
    /\ csv_file = "closed"
    /\ Cardinality(DOMAIN mlc) = 2
    /\ num_snapshots > 0
    /\ csv_rows = 13 + 40 + 4 * 2

\* C10: for num_axes >= 0, axis_enum and samples_per_axis are each a sequence of
\* exactly num_axes integers.
C10_AxisArraysAreSequences ==
    (Past("samples_per_axis") /\ num_axes >= 0) =>
        /\ ~axis_enum.scalar /\ Len(axis_enum.v) = num_axes
        /\ ~samples_per_axis.scalar /\ Len(samples_per_axis.v) = num_axes

====
